---------------------------- MODULE Spec2Model ----------------------------
(***************************************************************************)
(* Model of the RBAC authority of src/authority.go over a relational       *)
(* store with the schema of src/unnamed/part_000 and the foreign keys of   *)
(* migrateTables.                                                          *)
(*                                                                         *)
(* Every handler is a small machine over a call frame: one step is one     *)
(* storage round trip together with the Go code that follows it up to the  *)
(* next round trip.  Spec runs each call to completion in one action (the  *)
(* callers do not overlap); ConcSpec lets two callers interleave their     *)
(* round trips, as the handlers open no transaction; FaultSpec is Spec on   *)
(* a store whose calls can fail with an error that is not sql.ErrNoRows.   *)
(***************************************************************************)
EXTENDS Naturals, Sequences, FiniteSets

\* ------------------------------------------------------------------ bounds

\* Highest value the roles id sequence hands out before CreateRole is no
\* longer called.
MaxRoleId == 2

\* Highest value the permissions id sequence hands out.
MaxPermId == 2

\* Longest permNames slice passed to AssignPermissions.
MaxPermNames == 2

\* Number of calls the concurrent callers start in one behaviour.
MaxCalls == 5

\* Latest storage round trip of a call that FaultSpec lets fail.
MaxFailAt == 3

\* ------------------------------------------------------------------ inputs

Users == {1, 2}

RoleNames == {"r1", "r2"}

PermNames == {"p1", "p2"}

\* The two concurrent callers of ConcSpec, and the names they use; the calls
\* that FaultSpec lets fail use the same names.
Procs == {1, 2}

ConcRoleNames == {"r1"}

ConcPermNames == {"p1"}

\* All sequences over S of length at most n.
SeqsUpTo(S, n) == UNION {[1..k -> S] : k \in 0..n}

\* ------------------------------------------------------------------ errors

ErrNil == "nil"

ErrPermissionInUse == "ErrPermissionInUse"

ErrPermissionNotFound == "ErrPermissionNotFound"

ErrRoleAlreadyAssigned == "ErrRoleAlreadyAssigned"

ErrRoleInUse == "ErrRoleInUse"

ErrRoleNotFound == "ErrRoleNotFound"

ErrRolePermissionNotFound == "ErrRolePermissionNotFound"

ErrUserRoleNotFound == "ErrUserRoleNotFound"

\* Errors of the store itself: a violated foreign key, a violated unique index.
ErrForeignKey == "ErrForeignKey"

ErrUnique == "ErrUnique"

\* Any other failure of a storage call: a lost connection, a timeout.
ErrStorage == "ErrStorage"

\* ------------------------------------------------------------------ state

VARIABLES
    roles,             \* rows of the roles table: [id, name]
    permissions,       \* rows of the permissions table: [id, name]
    role_permissions,  \* rows of role_permissions, by (role_id, permission_id), with their number
    user_roles,        \* rows of user_roles, by (user_id, role_id), with their number
    role_id_seq,       \* next id of the roles table
    perm_id_seq,       \* next id of the permissions table
    pre,               \* Spec: the tables before the last call
    last,              \* Spec: the frame of the last call, as it returned
    frame,             \* ConcSpec: the frame of each caller
    calls              \* ConcSpec: number of calls started

vars == <<roles, permissions, role_permissions, user_roles, role_id_seq, perm_id_seq,
          pre, last, frame, calls>>

\* The link tables have a surrogate id the code never reads; rows are kept
\* as a multiset over the columns the code reads.
NoRows == [e \in {} |-> 0]

Copies(B, e) == IF e \in DOMAIN B THEN B[e] ELSE 0

AddRow(B, e) == [x \in DOMAIN B \cup {e} |-> Copies(B, x) + (IF x = e THEN 1 ELSE 0)]

\* The rows of B outside the set D.
Without(B, D) == [x \in DOMAIN B \ D |-> B[x]]

\* The database as one value.
DB == [roles |-> roles, permissions |-> permissions,
       role_permissions |-> role_permissions, user_roles |-> user_roles,
       role_id_seq |-> role_id_seq, perm_id_seq |-> perm_id_seq]

\* The tables right after migrateTables on an empty database.
EmptyDB == [roles |-> {}, permissions |-> {},
            role_permissions |-> NoRows, user_roles |-> NoRows,
            role_id_seq |-> 1, perm_id_seq |-> 1]

RoleIds(d) == {r.id : r \in d.roles}

PermIds(d) == {p.id : p \in d.permissions}


\* ------------------------------------------------------------------ storage

RolesNamed(d, name) == {r \in d.roles : r.name = name}

PermsNamed(d, name) == {p \in d.permissions : p.name = name}

RolePermRow(roleID, permID) == [role_id |-> roleID, permission_id |-> permID]

UserRoleRow(userID, roleID) == [user_id |-> userID, role_id |-> roleID]

\* InsertRole on a name column without its unique index.
InsertRoleNoUnique(d, name) ==
    [db |-> [d EXCEPT !.roles = @ \cup {[id |-> d.role_id_seq, name |-> name]},
                      !.role_id_seq = @ + 1],
     err |-> ErrNil]

\* INSERT INTO roles: the id comes from the sequence, the name is unique.
InsertRole(d, name) ==
    IF RolesNamed(d, name) # {}
    THEN [db |-> d, err |-> ErrUnique]
    ELSE [db |-> [d EXCEPT !.roles = @ \cup {[id |-> d.role_id_seq, name |-> name]},
                           !.role_id_seq = @ + 1],
          err |-> ErrNil]

\* INSERT INTO permissions.
InsertPermission(d, name) ==
    IF PermsNamed(d, name) # {}
    THEN [db |-> d, err |-> ErrUnique]
    ELSE [db |-> [d EXCEPT !.permissions = @ \cup {[id |-> d.perm_id_seq, name |-> name]},
                           !.perm_id_seq = @ + 1],
          err |-> ErrNil]

\* InsertRolePermission on a table created without its foreign keys.
InsertRolePermissionNoFK(d, roleID, permID) ==
    [db |-> [d EXCEPT !.role_permissions = AddRow(@, RolePermRow(roleID, permID))],
     err |-> ErrNil]

\* INSERT INTO role_permissions: both foreign keys must resolve.
InsertRolePermission(d, roleID, permID) ==
    IF roleID \in RoleIds(d) /\ permID \in PermIds(d)
    THEN [db |-> [d EXCEPT !.role_permissions = AddRow(@, RolePermRow(roleID, permID))],
          err |-> ErrNil]
    ELSE [db |-> d, err |-> ErrForeignKey]

\* INSERT INTO user_roles: the role foreign key must resolve.
InsertUserRole(d, userID, roleID) ==
    IF roleID \in RoleIds(d)
    THEN [db |-> [d EXCEPT !.user_roles = AddRow(@, UserRoleRow(userID, roleID))],
          err |-> ErrNil]
    ELSE [db |-> d, err |-> ErrForeignKey]

\* DeleteRoleNamed without ON DELETE CASCADE: the links of the role stay.
DeleteRoleNamedNoCascade(d, name) ==
    [d EXCEPT !.roles = @ \ RolesNamed(d, name)]

\* DELETE FROM roles WHERE name = ?, with ON DELETE CASCADE of both link tables.
DeleteRoleNamed(d, name) ==
    LET gone == {r.id : r \in RolesNamed(d, name)}
    IN [d EXCEPT !.roles = @ \ RolesNamed(d, name),
                 !.role_permissions = Without(@, {x \in DOMAIN @ : x.role_id \in gone}),
                 !.user_roles = Without(@, {x \in DOMAIN @ : x.role_id \in gone})]

\* DELETE FROM permissions WHERE name = ?, with ON DELETE CASCADE of role_permissions.
DeletePermissionNamed(d, name) ==
    LET gone == {p.id : p \in PermsNamed(d, name)}
    IN [d EXCEPT !.permissions = @ \ PermsNamed(d, name),
                 !.role_permissions = Without(@, {x \in DOMAIN @ : x.permission_id \in gone})]

\* DELETE FROM user_roles WHERE user_id = ? AND role_id = ?
DeleteUserRoles(d, userID, roleID) ==
    [d EXCEPT !.user_roles = Without(@, {UserRoleRow(userID, roleID)})]

\* DELETE FROM role_permissions WHERE role_id = ? AND permission_id = ?
DeleteRolePermissions(d, roleID, permID) ==
    [d EXCEPT !.role_permissions = Without(@, {RolePermRow(roleID, permID)})]

\* SELECT ... FROM user_roles WHERE user_id = ?: the role_id of every row, in
\* role_id order, a row per copy.
RECURSIVE RoleIDsIn(_, _)
RoleIDsIn(B, userID) ==
    LET mine == {x \in DOMAIN B : x.user_id = userID}
    IN IF mine = {} THEN <<>>
       ELSE LET m == CHOOSE x \in mine : \A y \in mine : x.role_id <= y.role_id
            IN [k \in 1..B[m] |-> m.role_id] \o RoleIDsIn(Without(B, {m}), userID)

\* The names of a set of rows, in id order.
RECURSIVE NamesById(_)
NamesById(rows) ==
    IF rows = {} THEN <<>>
    ELSE LET m == CHOOSE x \in rows : \A y \in rows : x.id <= y.id
         IN <<m.name>> \o NamesById(rows \ {m})

\* ------------------------------------------------------------------ lookups

\* The lookup helpers; fail says that their query ends in a storage failure.

\* getRole: the id of the role of that name, or ErrRoleNotFound.  A failure
\* that is not sql.ErrNoRows leaves the if statement without a return: the
\* zero Role comes back with a nil error.
getRole(d, roleName, fail) ==
    IF fail THEN [id |-> 0, err |-> ErrNil]
    ELSE IF RolesNamed(d, roleName) = {}
    THEN [id |-> 0, err |-> ErrRoleNotFound]
    ELSE [id |-> (CHOOSE r \in RolesNamed(d, roleName) : TRUE).id, err |-> ErrNil]

\* getPermission: the id of the permission of that name, or
\* ErrPermissionNotFound; a failure is dropped as in getRole.
getPermission(d, permName, fail) ==
    IF fail THEN [id |-> 0, err |-> ErrNil]
    ELSE IF PermsNamed(d, permName) = {}
    THEN [id |-> 0, err |-> ErrPermissionNotFound]
    ELSE [id |-> (CHOOSE p \in PermsNamed(d, permName) : TRUE).id, err |-> ErrNil]

\* getRolePermission: nil when a row links the role to the permission.
getRolePermission(d, roleID, permID, fail) ==
    IF fail THEN ErrStorage
    ELSE IF Copies(d.role_permissions, RolePermRow(roleID, permID)) > 0
    THEN ErrNil ELSE ErrRolePermissionNotFound

\* getUserRole: nil when a row links the user to the role.
getUserRole(d, userID, roleID, fail) ==
    IF fail THEN ErrStorage
    ELSE IF Copies(d.user_roles, UserRoleRow(userID, roleID)) > 0
    THEN ErrNil ELSE ErrUserRoleNotFound

\* ------------------------------------------------------------------ frames

\* The pc of a frame that has returned, and of a caller that has not called yet.
Done == "done"

Idle == "idle"

\* The first storage call of each operation.
Entry(op) ==
    CASE op = "CreateRole" -> "exists"
      [] op = "CreatePermission" -> "exists"
      [] op \in {"AssignPermissions", "AssignRole", "CheckRole", "CheckRolePermission",
                 "RevokeRole", "RevokeRolePermission", "DeleteRole"} -> "getRole"
      [] op \in {"CheckPermission", "RevokePermission", "GetUserRoles"} -> "selectUserRoles"
      [] op = "GetRoles" -> "selectRoles"
      [] op = "GetPermissions" -> "selectPermissions"
      [] op = "DeletePermission" -> "getPermission"

\* The frame of a call: its arguments, its locals at their Go zero values,
\* and what it returns (ok, names, err).  failAt is the storage round trip
\* of the call that ends in a storage failure (0: none), trip the number of
\* round trips made, failed the round trip that did fail.
Frame(op, userID, roleName, permName, permNames) ==
    [op |-> op, pc |-> Entry(op),
     userID |-> userID, roleName |-> roleName, permName |-> permName,
     permNames |-> permNames,
     role |-> 0, perm |-> 0, perms |-> <<>>, roleIDs |-> <<>>, i |-> 1,
     ok |-> FALSE, names |-> <<>>, err |-> ErrNil,
     failAt |-> 0, trip |-> 0, failed |-> ""]

NoCall == [Frame("GetRoles", 0, "", "", <<>>) EXCEPT !.op = "none", !.pc = Idle]

\* The round trip that frame f is about to make ends in a storage failure.
Fails(f) == f.failAt = f.trip + 1

\* A statement that failed: nothing is written, the driver returns its error.
Failing(d) == [db |-> d, err |-> ErrStorage]

Goto(d, f, pc) == [db |-> d, fr |-> [f EXCEPT !.pc = pc]]

Return(d, f, err) == [db |-> d, fr |-> [f EXCEPT !.pc = Done, !.err = err]]

ReturnBool(d, f, ok, err) == [db |-> d, fr |-> [f EXCEPT !.pc = Done, !.ok = ok, !.err = err]]

\* ------------------------------------------------------------------ handlers
\* XStep(d, f): the next storage round trip of a call of X in frame f on the
\* database d, and the code after it; the result is [db, fr].

\* CreateRole that inserts without asking whether the name exists.
CreateRoleStepUnchecked(d, f) ==
    CASE f.pc = "exists" ->
           Goto(d, f, "insert")
      [] f.pc = "insert" ->
           LET r == IF Fails(f) THEN Failing(d) ELSE InsertRole(d, f.roleName)
           IN Return(r.db, f, r.err)

\* CreateRole
CreateRoleStep(d, f) ==
    CASE f.pc = "exists" ->
           IF Fails(f) THEN Return(d, f, ErrStorage)
           ELSE IF RolesNamed(d, f.roleName) # {}
           THEN Return(d, f, ErrNil)
           ELSE Goto(d, f, "insert")
      [] f.pc = "insert" ->
           LET r == IF Fails(f) THEN Failing(d) ELSE InsertRole(d, f.roleName)
           IN Return(r.db, f, r.err)

\* CreatePermission
CreatePermissionStep(d, f) ==
    CASE f.pc = "exists" ->
           IF Fails(f) THEN Return(d, f, ErrStorage)
           ELSE IF PermsNamed(d, f.permName) # {}
           THEN Return(d, f, ErrNil)
           ELSE Goto(d, f, "insert")
      [] f.pc = "insert" ->
           LET r == IF Fails(f) THEN Failing(d) ELSE InsertPermission(d, f.permName)
           IN Return(r.db, f, r.err)

\* AssignPermissions, second loop: on to the next resolved permission, or return.
NextPerm(d, f) ==
    IF f.i < Len(f.perms)
    THEN [db |-> d, fr |-> [f EXCEPT !.i = @ + 1, !.pc = "getRolePermission"]]
    ELSE Return(d, f, ErrNil)

\* AssignPermissions in one loop: each name is resolved and linked before the
\* next name is resolved.
AssignPermissionsStepEager(d, f) ==
    CASE f.pc = "getRole" ->
           LET g == getRole(d, f.roleName, Fails(f))
           IN IF g.err # ErrNil THEN Return(d, f, g.err)
              ELSE IF Len(f.permNames) = 0 THEN Return(d, [f EXCEPT !.role = g.id], ErrNil)
              ELSE [db |-> d, fr |-> [f EXCEPT !.role = g.id, !.i = 1, !.pc = "getPermission"]]
      [] f.pc = "getPermission" ->
           LET g == getPermission(d, f.permNames[f.i], Fails(f))
           IN IF g.err # ErrNil THEN Return(d, f, g.err)
              ELSE [db |-> d, fr |-> [f EXCEPT !.perms = Append(@, g.id),
                                              !.pc = "getRolePermission"]]
      [] f.pc = "getRolePermission" ->
           IF getRolePermission(d, f.role, f.perms[f.i], Fails(f)) # ErrNil
           THEN Goto(d, f, "insert")
           ELSE IF f.i < Len(f.permNames)
           THEN [db |-> d, fr |-> [f EXCEPT !.i = @ + 1, !.pc = "getPermission"]]
           ELSE Return(d, f, ErrNil)
      [] f.pc = "insert" ->
           LET r == IF Fails(f) THEN Failing(d) ELSE InsertRolePermission(d, f.role, f.perms[f.i])
           IN IF r.err # ErrNil THEN Return(r.db, f, r.err)
              ELSE IF f.i < Len(f.permNames)
              THEN [db |-> r.db, fr |-> [f EXCEPT !.i = @ + 1, !.pc = "getPermission"]]
              ELSE Return(r.db, f, ErrNil)

\* AssignPermissions that looks for the existing links of all resolved
\* permissions first and inserts the missing ones afterwards.
AssignPermissionsStepStale(d, f) ==
    CASE f.pc = "getRole" ->
           LET g == getRole(d, f.roleName, Fails(f))
           IN IF g.err # ErrNil THEN Return(d, f, g.err)
              ELSE IF Len(f.permNames) = 0 THEN Return(d, [f EXCEPT !.role = g.id], ErrNil)
              ELSE [db |-> d, fr |-> [f EXCEPT !.role = g.id, !.i = 1, !.pc = "getPermission"]]
      [] f.pc = "getPermission" ->
           LET g == getPermission(d, f.permNames[f.i], Fails(f))
           IN IF g.err # ErrNil THEN Return(d, f, g.err)
              ELSE IF f.i < Len(f.permNames)
              THEN [db |-> d, fr |-> [f EXCEPT !.perms = Append(@, g.id), !.i = @ + 1]]
              ELSE [db |-> d, fr |-> [f EXCEPT !.perms = Append(@, g.id), !.i = 1,
                                              !.pc = "getRolePermission"]]
      [] f.pc = "getRolePermission" ->
           LET todo == SelectSeq(f.perms,
                           LAMBDA id : getRolePermission(d, f.role, id, Fails(f)) # ErrNil)
           IN IF Len(todo) = 0 THEN Return(d, f, ErrNil)
              ELSE [db |-> d, fr |-> [f EXCEPT !.perms = todo, !.i = 1, !.pc = "insert"]]
      [] f.pc = "insert" ->
           LET r == IF Fails(f) THEN Failing(d) ELSE InsertRolePermission(d, f.role, f.perms[f.i])
           IN IF r.err # ErrNil THEN Return(r.db, f, r.err)
              ELSE IF f.i < Len(f.perms)
              THEN [db |-> r.db, fr |-> [f EXCEPT !.i = @ + 1]]
              ELSE Return(r.db, f, ErrNil)

\* AssignPermissions
AssignPermissionsStep(d, f) ==
    CASE f.pc = "getRole" ->
           LET g == getRole(d, f.roleName, Fails(f))
           IN IF g.err # ErrNil THEN Return(d, f, g.err)
              ELSE IF Len(f.permNames) = 0 THEN Return(d, [f EXCEPT !.role = g.id], ErrNil)
              ELSE [db |-> d, fr |-> [f EXCEPT !.role = g.id, !.i = 1, !.pc = "getPermission"]]
      [] f.pc = "getPermission" ->
           LET g == getPermission(d, f.permNames[f.i], Fails(f))
           IN IF g.err # ErrNil THEN Return(d, f, g.err)
              ELSE IF f.i < Len(f.permNames)
              THEN [db |-> d, fr |-> [f EXCEPT !.perms = Append(@, g.id), !.i = @ + 1]]
              ELSE [db |-> d, fr |-> [f EXCEPT !.perms = Append(@, g.id), !.i = 1,
                                              !.pc = "getRolePermission"]]
      [] f.pc = "getRolePermission" ->
           IF getRolePermission(d, f.role, f.perms[f.i], Fails(f)) # ErrNil
           THEN Goto(d, f, "insert")
           ELSE NextPerm(d, f)
      [] f.pc = "insert" ->
           LET r == IF Fails(f) THEN Failing(d) ELSE InsertRolePermission(d, f.role, f.perms[f.i])
           IN IF r.err # ErrNil THEN Return(r.db, f, r.err)
              ELSE NextPerm(r.db, f)

\* AssignRole that inserts without looking for the link first.
AssignRoleStepUnchecked(d, f) ==
    CASE f.pc = "getRole" ->
           LET g == getRole(d, f.roleName, Fails(f))
           IN IF g.err # ErrNil THEN Return(d, f, g.err)
              ELSE [db |-> d, fr |-> [f EXCEPT !.role = g.id, !.pc = "getUserRole"]]
      [] f.pc = "getUserRole" ->
           Goto(d, f, "insert")
      [] f.pc = "insert" ->
           LET r == IF Fails(f) THEN Failing(d) ELSE InsertUserRole(d, f.userID, f.role)
           IN Return(r.db, f, r.err)

\* AssignRole
AssignRoleStep(d, f) ==
    CASE f.pc = "getRole" ->
           LET g == getRole(d, f.roleName, Fails(f))
           IN IF g.err # ErrNil THEN Return(d, f, g.err)
              ELSE [db |-> d, fr |-> [f EXCEPT !.role = g.id, !.pc = "getUserRole"]]
      [] f.pc = "getUserRole" ->
           IF getUserRole(d, f.userID, f.role, Fails(f)) = ErrNil
           THEN Return(d, f, ErrRoleAlreadyAssigned)
           ELSE Goto(d, f, "insert")
      [] f.pc = "insert" ->
           LET r == IF Fails(f) THEN Failing(d) ELSE InsertUserRole(d, f.userID, f.role)
           IN Return(r.db, f, r.err)

\* CheckRole that answers false, without an error, for a role that is not there.
CheckRoleStepLenient(d, f) ==
    CASE f.pc = "getRole" ->
           LET g == getRole(d, f.roleName, Fails(f))
           IN IF g.err # ErrNil THEN ReturnBool(d, f, FALSE, ErrNil)
              ELSE [db |-> d, fr |-> [f EXCEPT !.role = g.id, !.pc = "getUserRole"]]
      [] f.pc = "getUserRole" ->
           LET e == getUserRole(d, f.userID, f.role, Fails(f))
           IN IF e = ErrUserRoleNotFound THEN ReturnBool(d, f, FALSE, ErrNil)
              ELSE IF e # ErrNil THEN ReturnBool(d, f, FALSE, e)
              ELSE ReturnBool(d, f, TRUE, ErrNil)

\* CheckRole
CheckRoleStep(d, f) ==
    CASE f.pc = "getRole" ->
           LET g == getRole(d, f.roleName, Fails(f))
           IN IF g.err # ErrNil THEN ReturnBool(d, f, FALSE, g.err)
              ELSE [db |-> d, fr |-> [f EXCEPT !.role = g.id, !.pc = "getUserRole"]]
      [] f.pc = "getUserRole" ->
           LET e == getUserRole(d, f.userID, f.role, Fails(f))
           IN IF e = ErrUserRoleNotFound THEN ReturnBool(d, f, FALSE, ErrNil)
              ELSE IF e # ErrNil THEN ReturnBool(d, f, FALSE, e)
              ELSE ReturnBool(d, f, TRUE, ErrNil)

\* CheckPermission that asks whether any role at all links to the permission.
CheckPermissionStepAnyRole(d, f) ==
    CASE f.pc = "selectUserRoles" ->
           IF Fails(f) THEN ReturnBool(d, f, FALSE, ErrStorage)
           ELSE [db |-> d, fr |-> [f EXCEPT !.roleIDs = RoleIDsIn(d.user_roles, f.userID),
                                            !.pc = "getPermission"]]
      [] f.pc = "getPermission" ->
           LET g == getPermission(d, f.permName, Fails(f))
           IN IF g.err # ErrNil THEN ReturnBool(d, f, FALSE, g.err)
              ELSE [db |-> d, fr |-> [f EXCEPT !.perm = g.id, !.pc = "selectRolePermission"]]
      [] f.pc = "selectRolePermission" ->
           IF Fails(f) THEN ReturnBool(d, f, FALSE, ErrNil)
           ELSE IF \E x \in DOMAIN d.role_permissions : x.permission_id = f.perm
           THEN ReturnBool(d, f, TRUE, ErrNil)
           ELSE ReturnBool(d, f, FALSE, ErrNil)

\* CheckPermission
CheckPermissionStep(d, f) ==
    CASE f.pc = "selectUserRoles" ->
           IF Fails(f) THEN ReturnBool(d, f, FALSE, ErrStorage)
           ELSE [db |-> d, fr |-> [f EXCEPT !.roleIDs = RoleIDsIn(d.user_roles, f.userID),
                                            !.pc = "getPermission"]]
      [] f.pc = "getPermission" ->
           LET g == getPermission(d, f.permName, Fails(f))
           IN IF g.err # ErrNil THEN ReturnBool(d, f, FALSE, g.err)
              ELSE [db |-> d, fr |-> [f EXCEPT !.perm = g.id, !.pc = "selectRolePermission"]]
      [] f.pc = "selectRolePermission" ->
           \* any error of the query, sql.ErrNoRows or not, is answered false, nil
           IF Fails(f) THEN ReturnBool(d, f, FALSE, ErrNil)
           ELSE IF \E k \in 1..Len(f.roleIDs) :
                  Copies(d.role_permissions, RolePermRow(f.roleIDs[k], f.perm)) > 0
           THEN ReturnBool(d, f, TRUE, ErrNil)
           ELSE ReturnBool(d, f, FALSE, ErrNil)

\* CheckRolePermission
CheckRolePermissionStep(d, f) ==
    CASE f.pc = "getRole" ->
           LET g == getRole(d, f.roleName, Fails(f))
           IN IF g.err # ErrNil THEN ReturnBool(d, f, FALSE, g.err)
              ELSE [db |-> d, fr |-> [f EXCEPT !.role = g.id, !.pc = "getPermission"]]
      [] f.pc = "getPermission" ->
           LET g == getPermission(d, f.permName, Fails(f))
           IN IF g.err # ErrNil THEN ReturnBool(d, f, FALSE, g.err)
              ELSE [db |-> d, fr |-> [f EXCEPT !.perm = g.id, !.pc = "getRolePermission"]]
      [] f.pc = "getRolePermission" ->
           LET e == getRolePermission(d, f.role, f.perm, Fails(f))
           IN IF e = ErrRolePermissionNotFound THEN ReturnBool(d, f, FALSE, ErrNil)
              ELSE IF e # ErrNil THEN ReturnBool(d, f, FALSE, e)
              ELSE ReturnBool(d, f, TRUE, ErrNil)

\* RevokeRole that reports a user who does not hold the role.
RevokeRoleStepStrict(d, f) ==
    CASE f.pc = "getRole" ->
           LET g == getRole(d, f.roleName, Fails(f))
           IN IF g.err # ErrNil THEN Return(d, f, g.err)
              ELSE [db |-> d, fr |-> [f EXCEPT !.role = g.id, !.pc = "delete"]]
      [] f.pc = "delete" ->
           IF Fails(f) THEN Return(d, f, ErrStorage)
           ELSE IF Copies(d.user_roles, UserRoleRow(f.userID, f.role)) = 0
           THEN Return(d, f, ErrUserRoleNotFound)
           ELSE Return(DeleteUserRoles(d, f.userID, f.role), f, ErrNil)

\* RevokeRole
RevokeRoleStep(d, f) ==
    CASE f.pc = "getRole" ->
           LET g == getRole(d, f.roleName, Fails(f))
           IN IF g.err # ErrNil THEN Return(d, f, g.err)
              ELSE [db |-> d, fr |-> [f EXCEPT !.role = g.id, !.pc = "delete"]]
      [] f.pc = "delete" ->
           IF Fails(f) THEN Return(d, f, ErrStorage)
           ELSE Return(DeleteUserRoles(d, f.userID, f.role), f, ErrNil)

\* RevokePermission that deletes the links of the permission to every role,
\* held by the user or not.
RevokePermissionStepEveryRole(d, f) ==
    CASE f.pc = "selectUserRoles" ->
           IF Fails(f) THEN Return(d, f, ErrStorage)
           ELSE [db |-> d, fr |-> [f EXCEPT !.roleIDs = RoleIDsIn(d.user_roles, f.userID),
                                            !.pc = "getPermission"]]
      [] f.pc = "getPermission" ->
           LET g == getPermission(d, f.permName, Fails(f))
           IN IF g.err # ErrNil THEN Return(d, f, g.err)
              ELSE IF Len(f.roleIDs) = 0 THEN Return(d, [f EXCEPT !.perm = g.id], ErrNil)
              ELSE [db |-> d, fr |-> [f EXCEPT !.perm = g.id, !.i = 1, !.pc = "delete"]]
      [] f.pc = "delete" ->
           LET d2 == [d EXCEPT !.role_permissions =
                          Without(@, {x \in DOMAIN @ : x.permission_id = f.perm})]
           IN IF Fails(f) THEN Return(d, f, ErrStorage)
              ELSE Return(d2, f, ErrNil)

\* RevokePermission
RevokePermissionStep(d, f) ==
    CASE f.pc = "selectUserRoles" ->
           IF Fails(f) THEN Return(d, f, ErrStorage)
           ELSE [db |-> d, fr |-> [f EXCEPT !.roleIDs = RoleIDsIn(d.user_roles, f.userID),
                                            !.pc = "getPermission"]]
      [] f.pc = "getPermission" ->
           LET g == getPermission(d, f.permName, Fails(f))
           IN IF g.err # ErrNil THEN Return(d, f, g.err)
              ELSE IF Len(f.roleIDs) = 0 THEN Return(d, [f EXCEPT !.perm = g.id], ErrNil)
              ELSE [db |-> d, fr |-> [f EXCEPT !.perm = g.id, !.i = 1, !.pc = "delete"]]
      [] f.pc = "delete" ->
           LET d2 == DeleteRolePermissions(d, f.roleIDs[f.i], f.perm)
           IN IF Fails(f) THEN Return(d, f, ErrStorage)
              ELSE IF f.i < Len(f.roleIDs)
              THEN [db |-> d2, fr |-> [f EXCEPT !.i = @ + 1]]
              ELSE Return(d2, f, ErrNil)

\* RevokeRolePermission
RevokeRolePermissionStep(d, f) ==
    CASE f.pc = "getRole" ->
           LET g == getRole(d, f.roleName, Fails(f))
           IN IF g.err # ErrNil THEN Return(d, f, g.err)
              ELSE [db |-> d, fr |-> [f EXCEPT !.role = g.id, !.pc = "getPermission"]]
      [] f.pc = "getPermission" ->
           LET g == getPermission(d, f.permName, Fails(f))
           IN IF g.err # ErrNil THEN Return(d, f, g.err)
              ELSE [db |-> d, fr |-> [f EXCEPT !.perm = g.id, !.pc = "delete"]]
      [] f.pc = "delete" ->
           \* the error of the delete is assigned and never returned
           IF Fails(f) THEN Return(d, f, ErrNil)
           ELSE Return(DeleteRolePermissions(d, f.role, f.perm), f, ErrNil)

\* GetRoles
GetRolesStep(d, f) ==
    IF Fails(f) THEN Return(d, f, ErrStorage)
    ELSE [db |-> d, fr |-> [f EXCEPT !.names = NamesById(d.roles), !.pc = Done]]

\* GetUserRoles that deletes the user_roles rows whose role it could not read.
GetUserRolesStepPruning(d, f) ==
    CASE f.pc = "selectUserRoles" ->
           LET ids == RoleIDsIn(d.user_roles, f.userID)
           IN IF Fails(f) THEN Return(d, f, ErrStorage)
              ELSE IF Len(ids) = 0 THEN Return(d, f, ErrNil)
              ELSE [db |-> d, fr |-> [f EXCEPT !.roleIDs = ids, !.i = 1, !.pc = "selectRole"]]
      [] f.pc = "selectRole" ->
           LET found == {r \in d.roles : r.id = f.roleIDs[f.i]}
               read == found # {} /\ ~Fails(f)
               f2 == IF read
                     THEN [f EXCEPT !.names = Append(@, (CHOOSE r \in found : TRUE).name)]
                     ELSE f
               d2 == IF read THEN d ELSE DeleteUserRoles(d, f.userID, f.roleIDs[f.i])
           IN IF f.i < Len(f.roleIDs)
              THEN [db |-> d2, fr |-> [f2 EXCEPT !.i = @ + 1]]
              ELSE Return(d2, f2, ErrNil)

\* GetUserRoles
GetUserRolesStep(d, f) ==
    CASE f.pc = "selectUserRoles" ->
           LET ids == RoleIDsIn(d.user_roles, f.userID)
           IN IF Fails(f) THEN Return(d, f, ErrStorage)
              ELSE IF Len(ids) = 0 THEN Return(d, f, ErrNil)
              ELSE [db |-> d, fr |-> [f EXCEPT !.roleIDs = ids, !.i = 1, !.pc = "selectRole"]]
      [] f.pc = "selectRole" ->
           LET found == {r \in d.roles : r.id = f.roleIDs[f.i]}
               f2 == IF found = {} \/ Fails(f) THEN f
                     ELSE [f EXCEPT !.names = Append(@, (CHOOSE r \in found : TRUE).name)]
           IN IF f.i < Len(f.roleIDs)
              THEN [db |-> d, fr |-> [f2 EXCEPT !.i = @ + 1]]
              ELSE Return(d, f2, ErrNil)

\* GetPermissions
GetPermissionsStep(d, f) ==
    IF Fails(f) THEN Return(d, f, ErrStorage)
    ELSE [db |-> d, fr |-> [f EXCEPT !.names = NamesById(d.permissions), !.pc = Done]]

\* DeleteRole that returns ErrRoleInUse only after it has deleted the role.
DeleteRoleStepLateGuard(d, f) ==
    CASE f.pc = "getRole" ->
           LET g == getRole(d, f.roleName, Fails(f))
           IN IF g.err # ErrNil THEN Return(d, f, g.err)
              ELSE [db |-> d, fr |-> [f EXCEPT !.role = g.id, !.pc = "selectUserRole"]]
      [] f.pc = "selectUserRole" ->
           [db |-> d, fr |-> [f EXCEPT !.ok = ~Fails(f) /\ \E x \in DOMAIN d.user_roles :
                                                               x.role_id = f.role,
                                       !.pc = "selectRolePermissions"]]
      [] f.pc = "selectRolePermissions" ->
           IF Fails(f) THEN Return(d, f, ErrStorage)
           ELSE Goto(d, f, "deleteRole")
      [] f.pc = "deleteRole" ->
           IF Fails(f) THEN Return(d, f, ErrStorage)
           ELSE Return(DeleteRoleNamed(d, f.roleName), [f EXCEPT !.ok = FALSE],
                       IF f.ok THEN ErrRoleInUse ELSE ErrNil)

\* DeleteRole whose last statement is a SELECT run through Exec, as its
\* statement on role_permissions is: the call returns nil and the role stays.
DeleteRoleStepSelectOnly(d, f) ==
    CASE f.pc = "getRole" ->
           LET g == getRole(d, f.roleName, Fails(f))
           IN IF g.err # ErrNil THEN Return(d, f, g.err)
              ELSE [db |-> d, fr |-> [f EXCEPT !.role = g.id, !.pc = "selectUserRole"]]
      [] f.pc = "selectUserRole" ->
           IF ~Fails(f) /\ \E x \in DOMAIN d.user_roles : x.role_id = f.role
           THEN Return(d, f, ErrRoleInUse)
           ELSE Goto(d, f, "selectRolePermissions")
      [] f.pc = "selectRolePermissions" ->
           IF Fails(f) THEN Return(d, f, ErrStorage)
           ELSE Goto(d, f, "deleteRole")
      [] f.pc = "deleteRole" ->
           IF Fails(f) THEN Return(d, f, ErrStorage)
           ELSE Return(d, f, ErrNil)

\* DeleteRole
DeleteRoleStep(d, f) ==
    CASE f.pc = "getRole" ->
           LET g == getRole(d, f.roleName, Fails(f))
           IN IF g.err # ErrNil THEN Return(d, f, g.err)
              ELSE [db |-> d, fr |-> [f EXCEPT !.role = g.id, !.pc = "selectUserRole"]]
      [] f.pc = "selectUserRole" ->
           \* err == nil is the only outcome that stops the call: a query that
           \* fails counts as a role nobody holds
           IF ~Fails(f) /\ \E x \in DOMAIN d.user_roles : x.role_id = f.role
           THEN Return(d, f, ErrRoleInUse)
           ELSE Goto(d, f, "selectRolePermissions")
      [] f.pc = "selectRolePermissions" ->
           \* a SELECT run through Exec: it reads the links and removes none
           IF Fails(f) THEN Return(d, f, ErrStorage)
           ELSE Goto(d, f, "deleteRole")
      [] f.pc = "deleteRole" ->
           IF Fails(f) THEN Return(d, f, ErrStorage)
           ELSE Return(DeleteRoleNamed(d, f.roleName), f, ErrNil)

\* DeletePermission that leaves the links of the permission to the cascade
\* of the foreign key and does not look for them.
DeletePermissionStepUnguarded(d, f) ==
    CASE f.pc = "getPermission" ->
           LET g == getPermission(d, f.permName, Fails(f))
           IN IF g.err # ErrNil THEN Return(d, f, g.err)
              ELSE [db |-> d, fr |-> [f EXCEPT !.perm = g.id, !.pc = "selectRolePermission"]]
      [] f.pc = "selectRolePermission" ->
           Goto(d, f, "deletePermission")
      [] f.pc = "deletePermission" ->
           IF Fails(f) THEN Return(d, f, ErrStorage)
           ELSE Return(DeletePermissionNamed(d, f.permName), f, ErrNil)

\* DeletePermission
DeletePermissionStep(d, f) ==
    CASE f.pc = "getPermission" ->
           LET g == getPermission(d, f.permName, Fails(f))
           IN IF g.err # ErrNil THEN Return(d, f, g.err)
              ELSE [db |-> d, fr |-> [f EXCEPT !.perm = g.id, !.pc = "selectRolePermission"]]
      [] f.pc = "selectRolePermission" ->
           \* err == nil is the only outcome that stops the call
           IF ~Fails(f) /\ \E x \in DOMAIN d.role_permissions : x.permission_id = f.perm
           THEN Return(d, f, ErrPermissionInUse)
           ELSE Goto(d, f, "deletePermission")
      [] f.pc = "deletePermission" ->
           IF Fails(f) THEN Return(d, f, ErrStorage)
           ELSE Return(DeletePermissionNamed(d, f.permName), f, ErrNil)

\* The handler of the call in frame f.
Handler(d, f) ==
    CASE f.op = "CreateRole" -> CreateRoleStep(d, f)
      [] f.op = "CreatePermission" -> CreatePermissionStep(d, f)
      [] f.op = "AssignPermissions" -> AssignPermissionsStep(d, f)
      [] f.op = "AssignRole" -> AssignRoleStep(d, f)
      [] f.op = "CheckRole" -> CheckRoleStep(d, f)
      [] f.op = "CheckPermission" -> CheckPermissionStep(d, f)
      [] f.op = "CheckRolePermission" -> CheckRolePermissionStep(d, f)
      [] f.op = "RevokeRole" -> RevokeRoleStep(d, f)
      [] f.op = "RevokePermission" -> RevokePermissionStep(d, f)
      [] f.op = "RevokeRolePermission" -> RevokeRolePermissionStep(d, f)
      [] f.op = "GetRoles" -> GetRolesStep(d, f)
      [] f.op = "GetUserRoles" -> GetUserRolesStep(d, f)
      [] f.op = "GetPermissions" -> GetPermissionsStep(d, f)
      [] f.op = "DeleteRole" -> DeleteRoleStep(d, f)
      [] f.op = "DeletePermission" -> DeletePermissionStep(d, f)

\* One round trip of the call in frame f, counted, and noted when it failed.
Step(d, f) ==
    LET s == Handler(d, f)
    IN [db |-> s.db,
        fr |-> [s.fr EXCEPT !.trip = @ + 1,
                            !.failed = IF Fails(f) THEN f.pc ELSE @]]

\* A whole call: its round trips one after another until it returns.
RECURSIVE Run(_, _)
Run(d, f) ==
    IF f.pc = Done THEN [db |-> d, fr |-> f]
    ELSE LET s == Step(d, f) IN Run(s.db, s.fr)

\* ------------------------------------------------------------------ Spec
\* Calls that do not overlap: each action is one whole call.

Init ==
    /\ roles = EmptyDB.roles
    /\ permissions = EmptyDB.permissions
    /\ role_permissions = EmptyDB.role_permissions
    /\ user_roles = EmptyDB.user_roles
    /\ role_id_seq = EmptyDB.role_id_seq
    /\ perm_id_seq = EmptyDB.perm_id_seq
    /\ pre = EmptyDB
    /\ last = NoCall
    /\ frame = [p \in Procs |-> NoCall]
    /\ calls = 0

SetDB(d) ==
    /\ roles' = d.roles
    /\ permissions' = d.permissions
    /\ role_permissions' = d.role_permissions
    /\ user_roles' = d.user_roles
    /\ role_id_seq' = d.role_id_seq
    /\ perm_id_seq' = d.perm_id_seq

\* pre and last are history variables: they record one call of a behaviour,
\* the observed one, with the tables it started from, and the behaviour is
\* followed up to that call.  What a call does never depends on them.
Following == last = NoCall

\* A whole call.
Call(f, observed) ==
    LET s == Run(DB, f)
    IN /\ SetDB(s.db)
       /\ IF observed
          THEN pre' = DB /\ last' = s.fr
          ELSE UNCHANGED <<pre, last>>
       /\ UNCHANGED <<frame, calls>>

CreateRole ==
    \E n \in RoleNames, o \in BOOLEAN :
        /\ Following
        /\ role_id_seq <= MaxRoleId
        /\ Call(Frame("CreateRole", 0, n, "", <<>>), o)

CreatePermission ==
    \E n \in PermNames, o \in BOOLEAN :
        /\ Following
        /\ perm_id_seq <= MaxPermId
        /\ Call(Frame("CreatePermission", 0, "", n, <<>>), o)

AssignPermissions ==
    \E r \in RoleNames, ns \in SeqsUpTo(PermNames, MaxPermNames), o \in BOOLEAN :
        /\ Following
        /\ Call(Frame("AssignPermissions", 0, r, "", ns), o)

AssignRole ==
    \E u \in Users, r \in RoleNames, o \in BOOLEAN :
        /\ Following
        /\ Call(Frame("AssignRole", u, r, "", <<>>), o)

CheckRole ==
    \E u \in Users, r \in RoleNames, o \in BOOLEAN :
        /\ Following
        /\ Call(Frame("CheckRole", u, r, "", <<>>), o)

CheckPermission ==
    \E u \in Users, n \in PermNames, o \in BOOLEAN :
        /\ Following
        /\ Call(Frame("CheckPermission", u, "", n, <<>>), o)

CheckRolePermission ==
    \E r \in RoleNames, n \in PermNames, o \in BOOLEAN :
        /\ Following
        /\ Call(Frame("CheckRolePermission", 0, r, n, <<>>), o)

RevokeRole ==
    \E u \in Users, r \in RoleNames, o \in BOOLEAN :
        /\ Following
        /\ Call(Frame("RevokeRole", u, r, "", <<>>), o)

RevokePermission ==
    \E u \in Users, n \in PermNames, o \in BOOLEAN :
        /\ Following
        /\ Call(Frame("RevokePermission", u, "", n, <<>>), o)

RevokeRolePermission ==
    \E r \in RoleNames, n \in PermNames, o \in BOOLEAN :
        /\ Following
        /\ Call(Frame("RevokeRolePermission", 0, r, n, <<>>), o)

GetRoles ==
    \E o \in BOOLEAN :
        /\ Following
        /\ Call(Frame("GetRoles", 0, "", "", <<>>), o)

GetUserRoles ==
    \E u \in Users, o \in BOOLEAN :
        /\ Following
        /\ Call(Frame("GetUserRoles", u, "", "", <<>>), o)

GetPermissions ==
    \E o \in BOOLEAN :
        /\ Following
        /\ Call(Frame("GetPermissions", 0, "", "", <<>>), o)

DeleteRole ==
    \E r \in RoleNames, o \in BOOLEAN :
        /\ Following
        /\ Call(Frame("DeleteRole", 0, r, "", <<>>), o)

DeletePermission ==
    \E n \in PermNames, o \in BOOLEAN :
        /\ Following
        /\ Call(Frame("DeletePermission", 0, "", n, <<>>), o)

Next ==
    \/ CreateRole
    \/ CreatePermission
    \/ AssignPermissions
    \/ AssignRole
    \/ CheckRole
    \/ CheckPermission
    \/ CheckRolePermission
    \/ RevokeRole
    \/ RevokePermission
    \/ RevokeRolePermission
    \/ GetRoles
    \/ GetUserRoles
    \/ GetPermissions
    \/ DeleteRole
    \/ DeletePermission

Spec == Init /\ [][Next]_vars

\* ------------------------------------------------------------------ ConcSpec
\* Two callers whose storage round trips interleave.

Begin(p, f) ==
    /\ frame[p].pc \in {Idle, Done}
    /\ frame' = [frame EXCEPT ![p] = f]
    /\ calls' = calls + 1
    /\ UNCHANGED <<roles, permissions, role_permissions, user_roles, role_id_seq,
                   perm_id_seq, pre, last>>

BeginCreateRole(p) ==
    \E n \in ConcRoleNames :
        /\ calls < MaxCalls
        /\ role_id_seq <= MaxRoleId
        /\ Begin(p, Frame("CreateRole", 0, n, "", <<>>))

BeginCreatePermission(p) ==
    \E n \in ConcPermNames :
        /\ calls < MaxCalls
        /\ perm_id_seq <= MaxPermId
        /\ Begin(p, Frame("CreatePermission", 0, "", n, <<>>))

BeginAssignPermissions(p) ==
    \E r \in ConcRoleNames, ns \in SeqsUpTo(ConcPermNames, MaxPermNames) :
        /\ calls < MaxCalls
        /\ Begin(p, Frame("AssignPermissions", 0, r, "", ns))

BeginAssignRole(p) ==
    \E u \in Users, r \in ConcRoleNames :
        /\ calls < MaxCalls
        /\ Begin(p, Frame("AssignRole", u, r, "", <<>>))

BeginRevokeRole(p) ==
    \E u \in Users, r \in ConcRoleNames :
        /\ calls < MaxCalls
        /\ Begin(p, Frame("RevokeRole", u, r, "", <<>>))

BeginRevokePermission(p) ==
    \E u \in Users, n \in ConcPermNames :
        /\ calls < MaxCalls
        /\ Begin(p, Frame("RevokePermission", u, "", n, <<>>))

BeginRevokeRolePermission(p) ==
    \E r \in ConcRoleNames, n \in ConcPermNames :
        /\ calls < MaxCalls
        /\ Begin(p, Frame("RevokeRolePermission", 0, r, n, <<>>))

BeginDeleteRole(p) ==
    \E r \in ConcRoleNames :
        /\ calls < MaxCalls
        /\ Begin(p, Frame("DeleteRole", 0, r, "", <<>>))

BeginDeletePermission(p) ==
    \E n \in ConcPermNames :
        /\ calls < MaxCalls
        /\ Begin(p, Frame("DeletePermission", 0, "", n, <<>>))

\* The next storage round trip of caller p.
RoundTrip(p) ==
    /\ frame[p].pc \notin {Idle, Done}
    /\ LET s == Step(DB, frame[p])
       IN /\ SetDB(s.db)
          /\ frame' = [frame EXCEPT ![p] = s.fr]
    /\ UNCHANGED <<pre, last, calls>>

ConcNext ==
    \E p \in Procs :
        \/ BeginCreateRole(p)
        \/ BeginCreatePermission(p)
        \/ BeginAssignPermissions(p)
        \/ BeginAssignRole(p)
        \/ BeginRevokeRole(p)
        \/ BeginRevokePermission(p)
        \/ BeginRevokeRolePermission(p)
        \/ BeginDeleteRole(p)
        \/ BeginDeletePermission(p)
        \/ RoundTrip(p)

ConcSpec == Init /\ [][ConcNext]_vars

\* ------------------------------------------------------------------ FaultSpec
\* Spec with a store that can fail: the observed call of a behaviour may have
\* one of its storage round trips end in a failure that is not sql.ErrNoRows.

\* The calls that may fail: every operation, on the names the concurrent
\* callers use.
Calls ==
    {Frame("CreateRole", 0, r, "", <<>>) : r \in ConcRoleNames}
    \cup {Frame("CreatePermission", 0, "", n, <<>>) : n \in ConcPermNames}
    \cup {Frame("AssignPermissions", 0, r, "", ns) :
              r \in ConcRoleNames, ns \in SeqsUpTo(ConcPermNames, MaxPermNames)}
    \cup {Frame(op, u, r, "", <<>>) :
              op \in {"AssignRole", "CheckRole", "RevokeRole"}, u \in Users, r \in ConcRoleNames}
    \cup {Frame(op, u, "", n, <<>>) :
              op \in {"CheckPermission", "RevokePermission"}, u \in Users, n \in ConcPermNames}
    \cup {Frame(op, 0, r, n, <<>>) :
              op \in {"CheckRolePermission", "RevokeRolePermission"},
              r \in ConcRoleNames, n \in ConcPermNames}
    \cup {Frame(op, 0, "", "", <<>>) : op \in {"GetRoles", "GetPermissions"}}
    \cup {Frame("GetUserRoles", u, "", "", <<>>) : u \in Users}
    \cup {Frame("DeleteRole", 0, r, "", <<>>) : r \in ConcRoleNames}
    \cup {Frame("DeletePermission", 0, "", n, <<>>) : n \in ConcPermNames}

\* A call whose k-th storage round trip, if it gets that far, fails.
FailingCall ==
    \E f \in Calls, k \in 1..MaxFailAt :
        /\ Following
        /\ Call([f EXCEPT !.failAt = k], TRUE)

FaultNext == Next \/ FailingCall

FaultSpec == Init /\ [][FaultNext]_vars

\* ------------------------------------------------------------------ claims

\* The rows of a link table that reference the role of that name in d.
UserRolesOf(d, roleName) ==
    {x \in DOMAIN d.user_roles : x.role_id \in {r.id : r \in RolesNamed(d, roleName)}}

RolePermsOf(d, roleName) ==
    {x \in DOMAIN d.role_permissions : x.role_id \in {r.id : r \in RolesNamed(d, roleName)}}

\* C1: once AssignRole(u, r) has returned nil, the same call made next returns
\* ErrRoleAlreadyAssigned, and user_roles holds exactly one row for
\* (u, r.id) before and after it.
C1_AssignRoleTwice ==
    (last.op = "AssignRole" /\ last.err = ErrNil) =>
        LET row == UserRoleRow(last.userID, last.role)
            s == Run(DB, Frame("AssignRole", last.userID, last.roleName, "", <<>>))
        IN /\ Copies(user_roles, row) = 1
           /\ s.fr.err = ErrRoleAlreadyAssigned
           /\ Copies(s.db.user_roles, row) = 1

\* C1 witness: an AssignRole that found the link of an earlier AssignRole and
\* was rejected, the link still being there once.
C1_Witness ==
    /\ last.op = "AssignRole"
    /\ last.err = ErrRoleAlreadyAssigned
    /\ Copies(pre.user_roles, UserRoleRow(last.userID, last.role)) = 1
    /\ Copies(user_roles, UserRoleRow(last.userID, last.role)) = 1

\* C3: DeleteRole(r) called while a user_roles row references r returns
\* ErrRoleInUse and leaves every table as it was.
C3_DeleteRoleInUse ==
    (last.op = "DeleteRole" /\ UserRolesOf(pre, last.roleName) # {}) =>
        /\ last.err = ErrRoleInUse
        /\ DB = pre

\* C3 witness: a rejected DeleteRole of a role that also has permission links.
C3_Witness ==
    /\ last.op = "DeleteRole"
    /\ last.err = ErrRoleInUse
    /\ UserRolesOf(pre, last.roleName) # {}
    /\ RolePermsOf(pre, last.roleName) # {}
    /\ DB = pre

\* C4: DeleteRole(r) of an existing role that no user_roles row references and
\* that has permission links returns nil; afterwards no role_permissions row
\* carries its id, its roles row is gone and GetRoles() does not list its name.
C4_DeleteRoleSuccess ==
    (/\ last.op = "DeleteRole"
     /\ RolesNamed(pre, last.roleName) # {}
     /\ UserRolesOf(pre, last.roleName) = {}
     /\ RolePermsOf(pre, last.roleName) # {}) =>
        LET gone == {r.id : r \in RolesNamed(pre, last.roleName)}
            got == Run(DB, Frame("GetRoles", 0, "", "", <<>>)).fr
        IN /\ last.err = ErrNil
           /\ \A x \in DOMAIN role_permissions : x.role_id \notin gone
           /\ RolesNamed(DB, last.roleName) = {}
           /\ got.err = ErrNil
           /\ \A k \in 1..Len(got.names) : got.names[k] # last.roleName

\* C4 witness: a DeleteRole that returned nil for a role that had permission links.
C4_Witness ==
    /\ last.op = "DeleteRole"
    /\ last.err = ErrNil
    /\ RolePermsOf(pre, last.roleName) # {}
    /\ RolesNamed(DB, last.roleName) = {}

\* C2: in every reachable state, also when the round trips of concurrent
\* AssignRole calls interleave, user_roles holds at most one row per
\* (user_id, role_id).
C2_AtMostOneUserRole ==
    \A x \in DOMAIN user_roles : user_roles[x] <= 1

\* C5: in every reachable state, also when the round trips of concurrent
\* calls interleave, every role_permissions row references a roles row and a
\* permissions row, and every user_roles row references a roles row.
C5_ReferentialIntegrity ==
    /\ \A x \in DOMAIN role_permissions :
           x.role_id \in RoleIds(DB) /\ x.permission_id \in PermIds(DB)
    /\ \A x \in DOMAIN user_roles : x.role_id \in RoleIds(DB)

\* C5 witness: an assignment that resolved its role and permission, lost the
\* race against a deletion, and had its insert refused by the foreign key.
C5_Witness ==
    \E p \in Procs :
        /\ frame[p].op \in {"AssignPermissions", "AssignRole"}
        /\ frame[p].pc = Done
        /\ frame[p].err = ErrForeignKey

\* C6: no step removes a roles row that a user_roles row references, however
\* the round trips of DeleteRole and AssignRole interleave.
C6_RoleKeptWhileAssigned ==
    [][\A r \in roles :
           (\E x \in DOMAIN user_roles : x.role_id = r.id) => r \in roles']_vars

\* User u holds a role in d that links to the permission of id permID.
HoldsPermission(d, u, permID) ==
    \E x \in DOMAIN d.user_roles :
        /\ x.user_id = u
        /\ Copies(d.role_permissions, RolePermRow(x.role_id, permID)) > 0

CheckPermissionOf(d, u, permName) == Run(d, Frame("CheckPermission", u, "", permName, <<>>)).fr

\* C7: CheckPermission(u, p) for an existing permission p returns (true, nil)
\* exactly when a role held by u links to p and (false, nil) otherwise; after
\* RevokeRolePermission(r, p) removed the only link that gave u the
\* permission, CheckPermission(u, p) returns (false, nil).
C7_CheckPermission ==
    /\ (last.op = "CheckPermission" /\ PermsNamed(pre, last.permName) # {}) =>
           /\ last.err = ErrNil
           /\ last.ok = (\E p \in PermsNamed(pre, last.permName) :
                             HoldsPermission(pre, last.userID, p.id))
    /\ (last.op = "RevokeRolePermission" /\ last.err = ErrNil) =>
           \A u \in Users :
               (\A x \in DOMAIN pre.user_roles, p \in PermsNamed(pre, last.permName) :
                    (x.user_id = u
                     /\ Copies(pre.role_permissions, RolePermRow(x.role_id, p.id)) > 0)
                    => x.role_id \in {r.id : r \in RolesNamed(pre, last.roleName)})
               => (~CheckPermissionOf(DB, u, last.permName).ok
                   /\ CheckPermissionOf(DB, u, last.permName).err = ErrNil)

\* C7 witness: a RevokeRolePermission before which a user passed
\* CheckPermission and after which the same user fails it.
C7_Witness ==
    /\ last.op = "RevokeRolePermission"
    /\ last.err = ErrNil
    /\ \E u \in Users :
           /\ CheckPermissionOf(pre, u, last.permName).ok
           /\ ~CheckPermissionOf(DB, u, last.permName).ok

\* C8: AssignPermissions returns ErrRoleNotFound when the role does not exist
\* and ErrPermissionNotFound when a name of permNames has no permissions row,
\* wherever the name stands in the slice, and in both cases it has inserted no
\* role_permissions row.
C8_AssignPermissionsAllResolvedFirst ==
    (last.op = "AssignPermissions") =>
        LET unresolved == {k \in 1..Len(last.permNames) :
                               PermsNamed(pre, last.permNames[k]) = {}}
        IN /\ RolesNamed(pre, last.roleName) = {} =>
                  (last.err = ErrRoleNotFound /\ DB = pre)
           /\ (RolesNamed(pre, last.roleName) # {} /\ unresolved # {}) =>
                  (last.err = ErrPermissionNotFound /\ DB = pre)

\* C8 witness: the unresolved name stands second, after a name that resolves
\* and is not yet linked to the role.
C8_Witness ==
    /\ last.op = "AssignPermissions"
    /\ last.err = ErrPermissionNotFound
    /\ Len(last.permNames) = 2
    /\ PermsNamed(pre, last.permNames[2]) = {}
    /\ \E p \in PermsNamed(pre, last.permNames[1]), r \in RolesNamed(pre, last.roleName) :
           Copies(pre.role_permissions, RolePermRow(r.id, p.id)) = 0
    /\ DB = pre

\* C9: calls that do not overlap never leave two role_permissions rows with
\* the same (role_id, permission_id); an AssignPermissions that returns nil
\* leaves every earlier link as it was and adds one row for each named pair
\* that was not linked, also for a name listed more than once.
C9_NoDuplicateLinks ==
    /\ \A x \in DOMAIN role_permissions : role_permissions[x] = 1
    /\ (last.op = "AssignPermissions" /\ last.err = ErrNil) =>
           LET named == {RolePermRow(r.id, p.id) :
                             r \in RolesNamed(pre, last.roleName),
                             p \in UNION {PermsNamed(pre, last.permNames[k]) :
                                              k \in 1..Len(last.permNames)}}
           IN /\ DOMAIN role_permissions = DOMAIN pre.role_permissions \cup named
              /\ \A x \in DOMAIN pre.role_permissions :
                     role_permissions[x] = pre.role_permissions[x]
              /\ \A x \in named : role_permissions[x] = 1
              /\ [DB EXCEPT !.role_permissions = pre.role_permissions] = pre

\* C9 witness: the same name listed twice for a pair that was not linked.
C9_Witness ==
    /\ last.op = "AssignPermissions"
    /\ last.err = ErrNil
    /\ Len(last.permNames) = 2
    /\ last.permNames[1] = last.permNames[2]
    /\ Copies(pre.role_permissions, RolePermRow(last.role, last.perms[1])) = 0
    /\ Copies(role_permissions, RolePermRow(last.role, last.perms[1])) = 1

\* C10: CreateRole(name) and CreatePermission(name) return nil and leave
\* exactly one row of that name; the same call made next returns nil again
\* and changes no table.
C10_CreateIdempotent ==
    /\ last.op = "CreateRole" =>
           LET s == Run(DB, Frame("CreateRole", 0, last.roleName, "", <<>>))
           IN /\ last.err = ErrNil
              /\ Cardinality(RolesNamed(DB, last.roleName)) = 1
              /\ s.fr.err = ErrNil
              /\ s.db = DB
    /\ last.op = "CreatePermission" =>
           LET s == Run(DB, Frame("CreatePermission", 0, "", last.permName, <<>>))
           IN /\ last.err = ErrNil
              /\ Cardinality(PermsNamed(DB, last.permName)) = 1
              /\ s.fr.err = ErrNil
              /\ s.db = DB

\* C10 witness: a CreateRole of a name that an earlier CreateRole had stored.
C10_Witness ==
    /\ last.op = "CreateRole"
    /\ last.err = ErrNil
    /\ RolesNamed(pre, last.roleName) # {}
    /\ DB = pre

\* C11: in every state that overlapping calls can reach, the roles table holds
\* at most one row of each name and the permissions table at most one row of
\* each name, also when two CreateRole or two CreatePermission calls of one
\* name both made their exists query before either inserted.
C11_UniqueNames ==
    /\ \A n \in RoleNames : Cardinality(RolesNamed(DB, n)) <= 1
    /\ \A n \in PermNames : Cardinality(PermsNamed(DB, n)) <= 1

\* C11 witness: two CreateRole calls of one name have returned, one of them
\* after an exists query that found nothing and an insert that the unique
\* index rejected.
C11_Witness ==
    /\ \A p \in Procs : frame[p].op = "CreateRole" /\ frame[p].pc = Done
    /\ frame[1].roleName = frame[2].roleName
    /\ \E p \in Procs : frame[p].err = ErrUnique
    /\ Cardinality(RolesNamed(DB, frame[1].roleName)) = 1

\* C12: CheckRole(u, name) returns ErrRoleNotFound, not false with a nil
\* error, when no role has that name; when the role exists it returns a nil
\* error and true exactly when a user_roles row (u, role.id) exists.
C12_CheckRole ==
    (last.op = "CheckRole") =>
        IF RolesNamed(pre, last.roleName) = {}
        THEN last.err = ErrRoleNotFound
        ELSE /\ last.err = ErrNil
             /\ last.ok = (\E r \in RolesNamed(pre, last.roleName) :
                              Copies(pre.user_roles, UserRoleRow(last.userID, r.id)) > 0)

\* C12 witness: CheckRole answered true for a user while another CheckRole
\* on the same tables, for a name no role has, returns ErrRoleNotFound.
C12_Witness ==
    /\ last.op = "CheckRole"
    /\ last.ok
    /\ last.err = ErrNil
    /\ \E n \in RoleNames :
           /\ RolesNamed(DB, n) = {}
           /\ Run(DB, Frame("CheckRole", last.userID, n, "", <<>>)).fr.err = ErrRoleNotFound

\* C13: RevokeRole(u, r) for an existing role r returns nil whether or not u
\* held r, removes every user_roles row (u, r.id) and no other row of any
\* table, and the same call made again returns nil and changes nothing.
C13_RevokeRoleIdempotent ==
    (last.op = "RevokeRole" /\ RolesNamed(pre, last.roleName) # {}) =>
        LET row == UserRoleRow(last.userID, last.role)
            s == Run(DB, Frame("RevokeRole", last.userID, last.roleName, "", <<>>))
        IN /\ last.err = ErrNil
           /\ last.role \in {r.id : r \in RolesNamed(pre, last.roleName)}
           /\ DB = [pre EXCEPT !.user_roles = Without(@, {row})]
           /\ s.fr.err = ErrNil
           /\ s.db = DB

\* C13 witness: RevokeRole removed the link of a user and left the link of
\* another user or role in place.
C13_Witness ==
    /\ last.op = "RevokeRole"
    /\ last.err = ErrNil
    /\ Copies(pre.user_roles, UserRoleRow(last.userID, last.role)) > 0
    /\ Copies(user_roles, UserRoleRow(last.userID, last.role)) = 0
    /\ DOMAIN user_roles # {}

\* The role_permissions rows that reference the permission of that name in d.
PermLinksOf(d, permName) ==
    {x \in DOMAIN d.role_permissions :
        x.permission_id \in {p.id : p \in PermsNamed(d, permName)}}

\* C14: DeletePermission(p) on an existing permission returns
\* ErrPermissionInUse and leaves every table as it was when a role_permissions
\* row references p; otherwise it returns nil and removes the permissions row
\* of p and nothing else.
C14_DeletePermission ==
    (last.op = "DeletePermission" /\ PermsNamed(pre, last.permName) # {}) =>
        IF PermLinksOf(pre, last.permName) # {}
        THEN /\ last.err = ErrPermissionInUse
             /\ DB = pre
        ELSE /\ last.err = ErrNil
             /\ DB = [pre EXCEPT !.permissions = @ \ PermsNamed(pre, last.permName)]

\* C14 witness: DeletePermission was refused for a permission linked to a
\* role, and on the same tables DeletePermission of a permission no role is
\* linked to removes it.
C14_Witness ==
    /\ last.op = "DeletePermission"
    /\ last.err = ErrPermissionInUse
    /\ PermLinksOf(DB, last.permName) # {}
    /\ \E n \in PermNames :
           /\ PermsNamed(DB, n) # {}
           /\ PermLinksOf(DB, n) = {}
           /\ LET s == Run(DB, Frame("DeletePermission", 0, "", n, <<>>))
              IN s.fr.err = ErrNil /\ PermsNamed(s.db, n) = {}

\* C15: each lookup helper returns its own not-found error when its query
\* finds no row, and returns the failure as its error when its query fails
\* in any other way: it never returns a zero-value entity with a nil error.
\* The failing case is stated for the helper whose query failed in the
\* observed call, on the arguments of that call.
C15_LookupErrors ==
    /\ \A n \in RoleNames :
           RolesNamed(DB, n) = {} => getRole(DB, n, FALSE).err = ErrRoleNotFound
    /\ \A n \in PermNames :
           PermsNamed(DB, n) = {} => getPermission(DB, n, FALSE).err = ErrPermissionNotFound
    /\ \A u \in Users, r \in 0..MaxRoleId, p \in 0..MaxPermId :
           /\ Copies(DB.role_permissions, RolePermRow(r, p)) = 0
                  => getRolePermission(DB, r, p, FALSE) = ErrRolePermissionNotFound
           /\ Copies(DB.user_roles, UserRoleRow(u, r)) = 0
                  => getUserRole(DB, u, r, FALSE) = ErrUserRoleNotFound
    /\ (last.failed = "getRole") =>
           LET g == getRole(pre, last.roleName, TRUE)
           IN g.err = ErrStorage /\ ~(g.id = 0 /\ g.err = ErrNil)
    /\ (last.failed = "getPermission") =>
           \A n \in PermNames :
               LET g == getPermission(pre, n, TRUE)
               IN g.err = ErrStorage /\ ~(g.id = 0 /\ g.err = ErrNil)
    /\ (last.failed = "getRolePermission") =>
           \A p \in 0..MaxPermId : getRolePermission(pre, last.role, p, TRUE) = ErrStorage
    /\ (last.failed = "getUserRole") =>
           getUserRole(pre, last.userID, last.role, TRUE) = ErrStorage

\* C16: DeleteRole and DeletePermission remove a row only after their guard
\* query has completed and found no referencing row: a call whose guard query
\* ended in a storage failure removes no row of any table.
C16_GuardBeforeDelete ==
    /\ (last.op = "DeleteRole" /\ last.failed = "selectUserRole") => DB = pre
    /\ (last.op = "DeletePermission" /\ last.failed = "selectRolePermission") => DB = pre

\* C17: when a storage call made by a public operation fails with an error
\* other than no-rows, the operation returns an error; so do, in particular,
\* RevokeRolePermission when its delete fails, CheckPermission when its link
\* query fails, and AssignRole and AssignPermissions when their existence
\* check fails.
C17_FailurePropagated ==
    (last.failed # "") => last.err # ErrNil

\* The ids of the roles that user u holds in d.
RolesHeld(d, u) == {x.role_id : x \in {y \in DOMAIN d.user_roles : y.user_id = u}}

\* C18: RevokePermission(u, p) for an existing permission p returns nil and
\* deletes every role_permissions row (role_id, p.id) whose role_id u holds,
\* and nothing else: CheckPermission(u, p) is false afterwards, and roles,
\* permissions, user_roles and every other role_permissions row are as they
\* were; when u holds no role no table changes.
C18_RevokePermission ==
    (last.op = "RevokePermission" /\ PermsNamed(pre, last.permName) # {}) =>
        LET gone == {RolePermRow(r, last.perm) : r \in RolesHeld(pre, last.userID)}
            c == Run(DB, Frame("CheckPermission", last.userID, "", last.permName, <<>>))
        IN /\ last.err = ErrNil
           /\ last.perm \in {p.id : p \in PermsNamed(pre, last.permName)}
           /\ DB = [pre EXCEPT !.role_permissions = Without(@, gone)]
           /\ c.fr.err = ErrNil /\ ~c.fr.ok
           /\ RolesHeld(pre, last.userID) = {} => DB = pre

\* C18 witness: RevokePermission removed the link of a role the user holds
\* and left the link of the same permission to a role the user does not hold.
C18_Witness ==
    /\ last.op = "RevokePermission"
    /\ last.err = ErrNil
    /\ \E r \in RolesHeld(pre, last.userID) :
           /\ Copies(pre.role_permissions, RolePermRow(r, last.perm)) > 0
           /\ Copies(role_permissions, RolePermRow(r, last.perm)) = 0
    /\ \E x \in DOMAIN role_permissions :
           x.permission_id = last.perm /\ x.role_id \notin RolesHeld(pre, last.userID)

\* C19: after DeleteRole(r) has returned nil, CreateRole(r) made next creates
\* a role that carries none of the old links: CheckRolePermission(r, p) is
\* false for every p and CheckRole(u, r) is false for every u, no link row
\* carrying the id of the new row.
C19_RecreatedRoleHasNoLinks ==
    (last.op = "DeleteRole" /\ last.err = ErrNil) =>
        LET c == Run(DB, Frame("CreateRole", 0, last.roleName, "", <<>>))
            new == {r.id : r \in RolesNamed(c.db, last.roleName)}
        IN /\ c.fr.err = ErrNil
           /\ Cardinality(new) = 1
           /\ \A n \in PermNames :
                  ~Run(c.db, Frame("CheckRolePermission", 0, last.roleName, n, <<>>)).fr.ok
           /\ \A u \in Users :
                  LET k == Run(c.db, Frame("CheckRole", u, last.roleName, "", <<>>))
                  IN k.fr.err = ErrNil /\ ~k.fr.ok
           /\ \A x \in DOMAIN c.db.role_permissions \cup DOMAIN c.db.user_roles :
                  x.role_id \notin new

\* C19 witness: DeleteRole removed a role that was linked to a permission
\* which still exists, and links of other roles are left.
C19_Witness ==
    /\ last.op = "DeleteRole"
    /\ last.err = ErrNil
    /\ \E x \in RolePermsOf(pre, last.roleName) : x.permission_id \in PermIds(DB)
    /\ RolesNamed(DB, last.roleName) = {}
    /\ DOMAIN role_permissions # {}

\* The operations that only read.
Reads == {"CheckRole", "CheckPermission", "CheckRolePermission",
          "GetRoles", "GetUserRoles", "GetPermissions"}

\* C20: CheckRole, CheckPermission, CheckRolePermission, GetRoles,
\* GetUserRoles and GetPermissions leave all four tables as they were,
\* whatever result or error they return.
C20_ReadsChangeNothing ==
    (last.op \in Reads) => DB = pre

\* C20 witness: a read on tables that hold a role, a permission and both
\* kinds of link returned an error because one of its queries failed.
C20_Witness ==
    /\ last.op \in Reads
    /\ last.failed # ""
    /\ last.err = ErrStorage
    /\ roles # {} /\ permissions # {}
    /\ DOMAIN role_permissions # {} /\ DOMAIN user_roles # {}

=============================================================================
